---- MODULE Spec2Model ----
(***************************************************************************)
(* Model of openlibrary/catalog/add_book/__init__.py: load(rec) matches an *)
(* import record against the editions of the site (build_pool, early_exit, *)
(* find_exact_match, find_match) and either reconciles the record into the *)
(* matched edition or creates a new edition and work (load_data).          *)
(*                                                                         *)
(* Python values are modelled as follows.  A dict is a function whose      *)
(* DOMAIN is the set of its keys, so `k in d` is k \in DOMAIN d.  A list   *)
(* is a sequence.  A title or an ISBN, on which the code does character    *)
(* work, is a sequence of one-character strings; every other str is a      *)
(* string.  A value that the code tests with isinstance(v, basestring) is  *)
(* tagged: [str |-> s] or [list |-> l].  None is the empty function.       *)
(***************************************************************************)
EXTENDS Integers, Sequences, FiniteSets, TLC

VARIABLES
    site,      \* web.ctx.site: the things of the store, in insertion order
    rec,       \* the record handed to the last load call
    reply,     \* what the last load call returned (or the exception it raised)
    trace,     \* the stages the last load call went through, each with the match it left
    batches,   \* the save_many calls of the last load call, each a list of things
    nloads,    \* number of load calls so far
    ops,       \* the store calls of the last load call, in the order it made them
    calls,     \* the load calls that run interleaved, each with where it is
    matching   \* a call of find_match: its pool, the scorer's verdicts, its result

vars == <<site, rec, reply, trace, batches, nloads, ops, calls, matching>>

\* ------------------------------------------------------------------ bounds

\* number of load calls in a behaviour
MaxLoads == 2

\* number of redirects find_match follows for one candidate before the
\* model reports that the loop does not end
MaxHops == 3

\* ----------------------------------------------------------- Python basics

None == <<>>

\* early_exit, find_exact_match: "no match" (edition keys are never empty)
False == "False"

SeqToSet(s) == {s[i] : i \in 1..Len(s)}

\* x in l
In(x, l) == \E i \in 1..Len(l) : l[i] = x

\* l with the items of `items` that are not in the set `existing`, appended
\* in order; `existing` is not updated while appending
AppendAbsent(l, items, existing) ==
    l \o SelectSeq(items, LAMBDA i : i \notin existing)

\* for x in items: if x not in l: l.append(x)
RECURSIVE AppendUnseen(_, _)
AppendUnseen(l, items) ==
    IF items = <<>> THEN l
    ELSE AppendUnseen(IF In(Head(items), l) THEN l ELSE Append(l, Head(items)),
                      Tail(items))

\* d.get(k), None when k is not a key of d
Get(d, k) == IF k \in DOMAIN d THEN d[k] ELSE None

\* d with d[k] = v
Set(d, k, v) == (k :> v) @@ d

\* del d[k]
Del(d, k) == [x \in DOMAIN d \ {k} |-> d[x]]

\* keys whose values are str; the values of every other key are sequences
\* (lists, titles) or tagged values
StrKeys == {"ocaid", "openlibrary", "cover", "key", "type", "location"}

\* keys whose record-side value is tagged [str |-> s] or [list |-> l]
TaggedKeys == {"ia_box_id", "ia_loaded_id"}

\* isinstance(v, basestring) for a tagged value
isstr(v) == "str" \in DOMAIN v

\* bool(d.get(k)) for an untagged value: the key is present and its value is
\* not '' or []
Truthy(d, k) ==
    /\ k \in DOMAIN d
    /\ IF k \in StrKeys THEN d[k] # "" ELSE d[k] # <<>>

\* ------------------------------------------------------------- normalize

\* str.lower() on the characters that the titles of the model use
lower(c) ==
    CASE c = "T" -> "t"
      [] c = "A" -> "a"
      [] c = "E" -> "e"
      [] c = "M" -> "m"
      [] OTHER -> c

startswith(s, p) == Len(s) >= Len(p) /\ SubSeq(s, 1, Len(p)) = p

\* s.replace(old, new), left to right, matches not overlapping
RECURSIVE replace(_, _, _)
replace(s, old, new) ==
    IF Len(s) < Len(old) \/ old = <<>> THEN s
    ELSE IF SubSeq(s, 1, Len(old)) = old
         THEN new \o replace(SubSeq(s, Len(old) + 1, Len(s)), old, new)
         ELSE <<Head(s)>> \o replace(Tail(s), old, new)

\* the truncation of normalize
NormLen == 25

normalize(s) ==
    LET norm0 == [i \in 1..Len(s) |-> lower(s[i])]
        norm1 == replace(norm0, <<" ", "a", "n", "d", " ">>, <<" ">>)
        norm2 == IF startswith(norm1, <<"t", "h", "e", " ">>)
                 THEN SubSeq(norm1, 5, Len(norm1))
                 ELSE IF startswith(norm1, <<"a", " ">>)
                      THEN SubSeq(norm1, 3, Len(norm1))
                      ELSE norm1
        nosp  == replace(norm2, <<" ">>, <<>>)
    IN  SubSeq(nosp, 1, IF Len(nosp) < NormLen THEN Len(nosp) ELSE NormLen)

\* str.strip() (of blanks)
RECURSIVE strip(_)
strip(s) ==
    IF s = <<>> THEN s
    ELSE IF Head(s) = " " THEN strip(Tail(s))
    ELSE IF s[Len(s)] = " " THEN strip(SubSeq(s, 1, Len(s) - 1))
    ELSE s

isbns_from_record(r) ==
    LET isbns == Get(r, "isbn") \o Get(r, "isbn_10") \o Get(r, "isbn_13")
    IN  [i \in 1..Len(isbns) |-> strip(replace(isbns[i], <<"-">>, <<>>))]

\* ------------------------------------------------------------- the store

EditionType  == "/type/edition"
WorkType     == "/type/work"
RedirectType == "/type/redirect"

\* web.ctx.site.get(key): the thing, or None
get(S, key) ==
    IF \E i \in 1..Len(S) : S[i].key = key
    THEN S[CHOOSE i \in 1..Len(S) : S[i].key = key]
    ELSE None

\* web.ctx.site.new_key(type): the next unused key of the type
new_key(S, type) ==
    LET n == Cardinality({i \in 1..Len(S) : S[i].type = type}) + 1
    IN  IF type = WorkType THEN "/works/OL" \o ToString(n) \o "W"
        ELSE "/books/OL" \o ToString(n) \o "M"

\* one thing of a save_many batch: replaces the thing of that key, or is added
put(S, thing) ==
    IF \E i \in 1..Len(S) : S[i].key = thing.key
    THEN [i \in 1..Len(S) |-> IF S[i].key = thing.key THEN thing ELSE S[i]]
    ELSE Append(S, thing)

\* web.ctx.site.save_many(edits, comment): one atomic batch
RECURSIVE save_many(_, _)
save_many(S, edits) ==
    IF edits = <<>> THEN S ELSE save_many(put(S, Head(edits)), Tail(edits))

\* the values of a thing that a query on `key` compares with
StoredVals(e, key) ==
    CASE key = "normalized_title_" ->
             IF "title" \in DOMAIN e THEN {normalize(e.title)} ELSE {}
      [] key = "isbn_" ->
             SeqToSet(Get(e, "isbn_10")) \cup SeqToSet(Get(e, "isbn_13"))
      [] key \in {"title", "ocaid"} ->
             IF key \in DOMAIN e THEN {e[key]} ELSE {}
      [] OTHER -> SeqToSet(Get(e, key))

\* list(web.ctx.site.things({'type': '/type/edition', key: value})): the keys
\* of the editions with one of the values `vals` under `key`, in store order
things(S, key, vals) ==
    LET hits == SelectSeq(S, LAMBDA t :
                    t.type = EditionType /\ StoredVals(t, key) \cap vals # {})
    IN  [i \in 1..Len(hits) |-> hits[i].key]

\* ------------------------------------------------------ matching the record

\* `value` is None, [str |-> v] (one value) or [list |-> l] (any of them)
editions_matched(S, r, key, value) ==
    IF value = None /\ key \notin DOMAIN r THEN <<>>
    ELSE LET vals == IF value = None
                     THEN (IF key \in {"title", "ocaid"} THEN {r[key]}
                           ELSE SeqToSet(r[key]))
                     ELSE IF isstr(value) THEN {value.str}
                     ELSE SeqToSet(value.list)
         IN  things(S, key, vals)

\* for f in 'source_records', 'oclc_numbers', 'lccn': the first key found by
\* the first value of the first field that finds one
\* first_value_match with the fields tried from the last to the first
RECURSIVE first_value_match_reversed(_, _, _)
first_value_match_reversed(S, r, fields) ==
    IF fields = <<>> THEN False
    ELSE LET f     == fields[Len(fields)]
             ekeys == IF Truthy(r, f)
                      THEN editions_matched(S, r, f, [str |-> r[f][1]])
                      ELSE <<>>
         IN  IF ekeys # <<>> THEN ekeys[1]
             ELSE first_value_match_reversed(S, r, SubSeq(fields, 1, Len(fields) - 1))

RECURSIVE first_value_match(_, _, _)
first_value_match(S, r, fields) ==
    IF fields = <<>> THEN False
    ELSE LET f     == Head(fields)
             ekeys == IF Truthy(r, f)
                      THEN editions_matched(S, r, f, [str |-> r[f][1]])
                      ELSE <<>>
         IN  IF ekeys # <<>> THEN ekeys[1]
             ELSE first_value_match(S, r, Tail(fields))

\* early_exit with the ISBN probe before the ocaid probe
early_exit_isbn_first(S, r) ==
    IF "openlibrary" \in DOMAIN r THEN "/books/" \o r.openlibrary
    ELSE LET by_ocaid == editions_matched(S, r, "ocaid", None)
             isbns    == isbns_from_record(r)
             by_isbn  == IF isbns # <<>>
                         THEN editions_matched(S, r, "isbn_", [list |-> isbns])
                         ELSE <<>>
         IN  IF by_isbn # <<>> THEN by_isbn[1]
             ELSE IF by_ocaid # <<>> THEN by_ocaid[1]
             ELSE first_value_match(S, r,
                      <<"source_records", "oclc_numbers", "lccn">>)

early_exit(S, r) ==
    IF "openlibrary" \in DOMAIN r THEN "/books/" \o r.openlibrary
    ELSE LET by_ocaid == editions_matched(S, r, "ocaid", None)
             isbns    == isbns_from_record(r)
             by_isbn  == IF isbns # <<>>
                         THEN editions_matched(S, r, "isbn_", [list |-> isbns])
                         ELSE <<>>
         IN  IF by_ocaid # <<>> THEN by_ocaid[1]
             ELSE IF by_isbn # <<>> THEN by_isbn[1]
             ELSE first_value_match(S, r,
                      <<"source_records", "oclc_numbers", "lccn">>)

\* build_pool with every edition of the store in the title criterion
build_pool_all(S, r) ==
    [k \in {c \in {"title"} : \E i \in 1..Len(S) : S[i].type = EditionType} |->
        {S[i].key : i \in {j \in 1..Len(S) : S[j].type = EditionType}}]

\* the edition pool: criterion -> set of edition keys, empty criteria left out
build_pool(S, r) ==
    LET isbns == isbns_from_record(r)
        found(k) ==
            CASE k = "title" ->
                     SeqToSet(editions_matched(S, r, "title", None))
                     \cup SeqToSet(editions_matched(S, r, "normalized_title_",
                                       [str |-> normalize(r.title)]))
              [] k = "isbn" ->
                     IF isbns # <<>>
                     THEN SeqToSet(editions_matched(S, r, "isbn_", [list |-> isbns]))
                     ELSE {}
              [] OTHER -> SeqToSet(editions_matched(S, r, k, None))
    IN  [k \in {c \in {"title", "oclc_numbers", "lccn", "ocaid", "isbn"} :
                    found(c) # {}} |-> found(k)]

\* the order in which edition_pool.iteritems() yields the criteria (Python
\* fixes one per dict; the model takes this one)
PoolOrder == <<"title", "oclc_numbers", "lccn", "ocaid", "isbn">>

\* the edition keys in the order the two nested loops over the pool visit
\* them (each list in store order), with repetitions
Candidates(S, pool) ==
    LET keysOf(k) ==
            IF k \in DOMAIN pool
            THEN LET hits == SelectSeq(S, LAMBDA t : t.key \in pool[k])
                 IN  [i \in 1..Len(hits) |-> hits[i].key]
            ELSE <<>>
    IN  keysOf(PoolOrder[1]) \o keysOf(PoolOrder[2]) \o keysOf(PoolOrder[3])
        \o keysOf(PoolOrder[4]) \o keysOf(PoolOrder[5])

\* existing_value != v, for the value of key k
differs(k, existing_value, v) ==
    IF k \in TaggedKeys
    THEN isstr(v) \/ existing_value # v.list
    ELSE existing_value # v

\* the inner loop of find_exact_match: no key of the record other than
\* source_records has a non-empty stored value that differs from the record's
\* (records of the model carry no languages and no authors)
fields_match(r, existing) ==
    \A k \in DOMAIN r \ {"source_records"} :
        ~Truthy(existing, k) \/ ~differs(k, existing[k], r[k])

RECURSIVE exact_loop(_, _, _, _)
exact_loop(S, r, cands, seen) ==
    IF cands = <<>> THEN False
    ELSE LET ekey == Head(cands)
         IN  IF ekey \in seen THEN exact_loop(S, r, Tail(cands), seen)
             ELSE IF fields_match(r, get(S, ekey)) THEN ekey
             ELSE exact_loop(S, r, Tail(cands), seen \cup {ekey})

find_exact_match(S, r, edition_pool) ==
    exact_loop(S, r, Candidates(S, edition_pool), {})

is_redirect(i) == i # None /\ i.type = RedirectType

\* the while loop of find_match for one candidate: follows redirects from
\* edition_key; `hops` is what is left of MaxHops
RECURSIVE follow(_, _, _, _)
follow(S, edition_key, seen, hops) ==
    LET thing == get(S, edition_key)
        seen1 == seen \cup {edition_key}
    IN  IF thing = None
        THEN [found |-> FALSE, loops |-> FALSE, seen |-> seen1]
        ELSE IF is_redirect(thing)
        THEN IF hops = 0
             THEN [found |-> FALSE, loops |-> TRUE, seen |-> seen1]
             ELSE follow(S, thing.location, seen1, hops - 1)
        ELSE [found |-> TRUE, loops |-> FALSE, seen |-> seen1,
              edition_key |-> edition_key]

\* the keys that the while loop of find_match reads from edition_key on, one
\* for each web.ctx.site.get
RECURSIVE follow_gets(_, _, _)
follow_gets(S, edition_key, hops) ==
    IF is_redirect(get(S, edition_key)) /\ hops > 0
    THEN <<edition_key>> \o follow_gets(S, get(S, edition_key).location, hops - 1)
    ELSE <<edition_key>>

\* find_match does not return
Loops == "loops"

\* try_merge(e1, edition_key, thing) is the external merge scorer: `accepts`
\* is the set of editions it accepts for this record
RECURSIVE match_loop(_, _, _, _)
match_loop(S, cands, seen, accepts) ==
    IF cands = <<>> THEN False
    ELSE IF Head(cands) \in seen THEN match_loop(S, Tail(cands), seen, accepts)
    ELSE LET res == follow(S, Head(cands), seen, MaxHops)
         IN  IF res.loops THEN Loops
             ELSE IF res.found /\ res.edition_key \in accepts THEN res.edition_key
             ELSE match_loop(S, Tail(cands), res.seen, accepts)

find_match(S, edition_pool, accepts) ==
    match_loop(S, Candidates(S, edition_pool), {}, accepts)

\* the same loop, for what it does on the way: the keys it reads with
\* web.ctx.site.get and the edition keys it hands to try_merge, in order
RECURSIVE match_calls(_, _, _, _)
match_calls(S, cands, seen, accepts) ==
    IF cands = <<>> THEN [gets |-> <<>>, tried |-> <<>>]
    ELSE IF Head(cands) \in seen THEN match_calls(S, Tail(cands), seen, accepts)
    ELSE LET res  == follow(S, Head(cands), seen, MaxHops)
             gets == follow_gets(S, Head(cands), MaxHops)
         IN  IF res.loops THEN [gets |-> gets, tried |-> <<>>]
             ELSE IF res.found /\ res.edition_key \in accepts
             THEN [gets |-> gets, tried |-> <<res.edition_key>>]
             ELSE LET rest == match_calls(S, Tail(cands), res.seen, accepts)
                  IN  [gets  |-> gets \o rest.gets,
                       tried |-> (IF res.found THEN <<res.edition_key>> ELSE <<>>)
                                 \o rest.tried]

\* the edition keys find_exact_match reads with web.ctx.site.get, in order
RECURSIVE exact_gets(_, _, _, _)
exact_gets(S, r, cands, seen) ==
    IF cands = <<>> THEN <<>>
    ELSE IF Head(cands) \in seen THEN exact_gets(S, r, Tail(cands), seen)
    ELSE IF fields_match(r, get(S, Head(cands))) THEN <<Head(cands)>>
    ELSE <<Head(cands)>> \o exact_gets(S, r, Tail(cands), seen \cup {Head(cands)})

\* ---------------------------------------------------------- the store calls

\* n calls of the store operation op
Calls(n, op) == [i \in 1..n |-> op]

\* the queries of build_pool: title and normalized title, the identifiers the
\* record has, and its ISBNs when it has any
pool_ops(r) ==
    Calls(2 + Cardinality({"oclc_numbers", "lccn", "ocaid"} \cap DOMAIN r)
            + (IF isbns_from_record(r) # <<>> THEN 1 ELSE 0),
          "things")

\* the queries of the loop over 'source_records', 'oclc_numbers', 'lccn' of
\* early_exit, which ends with the first query that finds an edition
RECURSIVE first_value_ops(_, _, _)
first_value_ops(S, r, fields) ==
    IF fields = <<>> THEN <<>>
    ELSE IF ~Truthy(r, Head(fields)) THEN first_value_ops(S, r, Tail(fields))
    ELSE IF things(S, Head(fields), {r[Head(fields)][1]}) # <<>> THEN <<"things">>
    ELSE <<"things">> \o first_value_ops(S, r, Tail(fields))

\* the number of queries of early_exit from the ISBN probe on
isbn_ops(S, r, isbns) ==
    (IF isbns # <<>> THEN 1 ELSE 0)
    + (IF things(S, "isbn_", SeqToSet(isbns)) # <<>> THEN 0
       ELSE Len(first_value_ops(S, r, <<"source_records", "oclc_numbers", "lccn">>)))

\* the queries of early_exit: none when the record has the hint
early_exit_ops(S, r) ==
    IF "openlibrary" \in DOMAIN r THEN <<>>
    ELSE Calls((IF "ocaid" \in DOMAIN r THEN 1 ELSE 0)
               + (IF "ocaid" \in DOMAIN r /\ things(S, "ocaid", {r.ocaid}) # <<>>
                  THEN 0 ELSE isbn_ops(S, r, isbns_from_record(r))),
               "things")

\* the store calls of the tiers that ran
tier_ops(S, r, edition_pool, accepts, stages) ==
    early_exit_ops(S, r)
    \o (IF Len(stages) > 1
        THEN Calls(Len(exact_gets(S, r, Candidates(S, edition_pool), {})), "get")
        ELSE <<>>)
    \o (IF Len(stages) > 2
        THEN Calls(Len(match_calls(S, Candidates(S, edition_pool), {}, accepts).gets),
                   "get")
        ELSE <<>>)

\* ------------------------------------------------------------ new editions

subject_fields == <<"subjects", "subject_places", "subject_times", "subject_people">>

get_title(e) == e.title

\* add_cover returns None
NoCover == "None"

\* what add_cover is left with after its attempts: no reply, a reply with a
\* message, or a reply with the id of the stored cover
CoverReplies ==
    {None, [message |-> "Invalid URL"], [message |-> "Not an image"], [id |-> "101"]}

\* int(reply['id']) of a reply that has no id
cover_raises(cover_reply) ==
    /\ cover_reply # None
    /\ "id" \notin DOMAIN cover_reply
    /\ cover_reply.message # "Invalid URL"

add_cover(cover_reply) ==
    IF cover_reply = None
       \/ ("message" \in DOMAIN cover_reply /\ cover_reply.message = "Invalid URL")
    THEN NoCover
    ELSE cover_reply.id

\* what modify_ia_item does with the archive item of an edition
PushReplies == {"ok", "failed", "raises"}

\* update_ia_metadata_for_ol_edition(edition_id) after the save: the reply of
\* load_data when the push returns, the exception when it raises
update_ia_metadata(S, ekey, push_reply, reply_ok) ==
    IF /\ Truthy(get(S, ekey), "ocaid")
       /\ Truthy(get(S, ekey), "works")
       /\ push_reply = "raises"
    THEN [raised |-> "modify_ia_item"]
    ELSE reply_ok

\* load_book.build_query: the edition dict of a record; a tagged value is
\* stored as a list
build_query(r) ==
    [k \in DOMAIN r \cup {"type"} |->
        IF k = "type" THEN EditionType
        ELSE IF k \in TaggedKeys
             THEN (IF isstr(r[k]) THEN <<r[k].str>> ELSE r[k].list)
             ELSE r[k]]

new_work(S, q, r, cover_id) ==
    LET subj == {s \in SeqToSet(subject_fields) : s \in DOMAIN r}
        keys == {"type", "title", "key"} \cup subj
                \cup (IF cover_id # NoCover THEN {"covers"} ELSE {})
    IN  [k \in keys |->
            CASE k = "type"   -> WorkType
              [] k = "title"  -> get_title(r)
              [] k = "key"    -> new_key(S, WorkType)
              [] k = "covers" -> <<cover_id>>
              [] OTHER        -> r[k]]

\* load_data for a record without authors (no author is imported and no
\* existing work is looked for): [site, reply, batches]
load_data(S, r0, cover_reply, push_reply) ==
    LET cover_url == IF "cover" \in DOMAIN r0 THEN r0.cover ELSE ""
        r         == Del(r0, "cover")
        q0        == build_query(r)
        ekey      == new_key(S, EditionType)
        cover_id  == IF cover_url # "" THEN add_cover(cover_reply) ELSE NoCover
        q1        == IF cover_url # "" THEN Set(q0, "covers", <<cover_id>>) ELSE q0
        w         == new_work(S, q1, r, cover_id)
        q         == Set(Set(q1, "works", <<w.key>>), "key", ekey)
        edits     == <<w, q>>
    IN  IF cover_url # "" /\ cover_raises(cover_reply)
        THEN [site |-> S, batches |-> <<>>, ops |-> <<"new_key">>,
              reply |-> [raised |-> "KeyError"]]
        ELSE
        [site    |-> save_many(S, edits),
         batches |-> <<edits>>,
         ops     |-> <<"new_key", "new_key", "save_many", "get">>,
         reply   |-> update_ia_metadata(save_many(S, edits), ekey, push_reply,
                        [success |-> TRUE,
                         edition |-> [key |-> ekey, status |-> "created"],
                         work    |-> [key |-> w.key, status |-> "created"]])]

\* -------------------------------------------------------- reconciliation
\* Each step takes and returns st = [e, w, need_edition_save, need_work_save].

\* source_records_step with the record's list stored in place of the merge
source_records_step_replace(st, r) ==
    [st EXCEPT !.e = Set(@, "source_records", r.source_records),
               !.need_edition_save = TRUE]

source_records_step(st, r) ==
    LET e0       == IF ~Truthy(st.e, "source_records")
                    THEN Set(st.e, "source_records", <<>>) ELSE st.e
        existing == SeqToSet(e0.source_records)
        merged   == AppendAbsent(e0.source_records, r.source_records, existing)
    IN  [st EXCEPT !.e = Set(e0, "source_records", merged),
                   !.need_edition_save = @ \/ merged # e0.source_records]

subjects_step(st, r) ==
    IF "subjects" \notin DOMAIN r THEN st
    ELSE LET base          == Get(st.w, "subjects")
             work_subjects == AppendUnseen(base, r.subjects)
             need          == st.need_work_save \/ work_subjects # base
         IN  [st EXCEPT !.w = IF need /\ work_subjects # <<>>
                              THEN Set(st.w, "subjects", work_subjects) ELSE @,
                        !.need_work_save = need]

\* ocaid_step that sets the record's ocaid whatever the edition has
ocaid_step_overwrite(st, r) ==
    IF "ocaid" \in DOMAIN r
    THEN [st EXCEPT !.e = Set(@, "ocaid", r.ocaid), !.need_edition_save = TRUE]
    ELSE st

\* ocaid_step without need_edition_save
ocaid_step_unsaved(st, r) ==
    IF "ocaid" \in DOMAIN r /\ ~Truthy(st.e, "ocaid")
    THEN [st EXCEPT !.e = Set(@, "ocaid", r.ocaid)]
    ELSE st

ocaid_step(st, r) ==
    IF "ocaid" \in DOMAIN r /\ ~Truthy(st.e, "ocaid")
    THEN [st EXCEPT !.e = Set(@, "ocaid", r.ocaid), !.need_edition_save = TRUE]
    ELSE st

cover_step(st, r, cover_reply) ==
    IF "cover" \in DOMAIN r /\ ~Truthy(st.e, "covers")
    THEN LET cover_id == add_cover(cover_reply)
         IN  IF cover_id # NoCover
             THEN [st EXCEPT
                     !.e = Set(@, "covers", <<cover_id>>),
                     !.need_edition_save = TRUE,
                     !.w = IF ~Truthy(st.w, "covers")
                           THEN Set(@, "covers", <<cover_id>>) ELSE @,
                     !.need_work_save = @ \/ ~Truthy(st.w, "covers")]
             ELSE st
    ELSE st

\* one round of the loop over 'ia_box_id', 'ia_loaded_id'
ia_step(st, r, f) ==
    IF f \notin DOMAIN r THEN st
    ELSE LET e0 == IF Truthy(st.e, f)
                   THEN Set(st.e, f,
                            IF isstr(r[f])
                            THEN (IF ~In(r[f].str, st.e[f])
                                  THEN Append(st.e[f], r[f].str) ELSE st.e[f])
                            ELSE AppendUnseen(st.e[f], r[f].list))
                   ELSE st.e
             \* the assignments after the `if e.get(f)` block are not in an else
             e1 == Set(e0, f, IF isstr(r[f]) THEN <<r[f].str>> ELSE r[f].list)
         IN  [st EXCEPT !.e = e1, !.need_edition_save = TRUE]

\* e.works = [{'key': w['key']}] of an edition found without a work
link_work_skipped(e, work_created, wkey) == e

link_work(e, work_created, wkey) ==
    IF work_created THEN Set(e, "works", <<wkey>>) ELSE e

\* the part of load after an edition has matched: [site, reply, batches, ops]
reconcile(S, r, match, cover_reply) ==
    LET e == get(S, match)
    IN  IF e = None
        THEN [site |-> S, batches |-> <<>>, ops |-> <<"get">>,
              reply |-> [raised |-> "AttributeError"]]
        ELSE
        LET work_created == ~Truthy(e, "works")
            w   == IF work_created
                   THEN [type |-> WorkType, title |-> get_title(r),
                         key |-> new_key(S, WorkType)]
                   ELSE get(S, e.works[1])
            st0 == [e |-> link_work(e, work_created, w.key),
                    w |-> w,
                    need_edition_save |-> work_created,
                    need_work_save    |-> work_created]
            st1 == source_records_step(st0, r)
            st2 == subjects_step(st1, r)
            st3 == ocaid_step(st2, r)
            st4 == cover_step(st3, r, cover_reply)
            st5 == ia_step(st4, r, "ia_box_id")
            st6 == ia_step(st5, r, "ia_loaded_id")
            edits == (IF st6.need_edition_save THEN <<st6.e>> ELSE <<>>)
                     \o (IF st6.need_work_save THEN <<st6.w>> ELSE <<>>)
            reads == <<"get", IF work_created THEN "new_key" ELSE "get">>
        IN  IF "cover" \in DOMAIN r /\ ~Truthy(e, "covers")
               /\ cover_raises(cover_reply)
            THEN [site |-> S, batches |-> <<>>, ops |-> reads,
                  reply |-> [raised |-> "KeyError"]]
            ELSE
            [site    |-> IF edits # <<>> THEN save_many(S, edits) ELSE S,
             batches |-> IF edits # <<>> THEN <<edits>> ELSE <<>>,
             ops     |-> reads \o (IF edits # <<>> THEN <<"save_many">> ELSE <<>>),
             reply   |->
                [success |-> TRUE,
                 edition |-> [key |-> match,
                              status |-> IF st6.need_edition_save
                                         THEN "modified" ELSE "matched"],
                 work    |-> [key |-> w.key,
                              status |-> IF st6.need_work_save
                                         THEN (IF work_created THEN "created"
                                               ELSE "modified")
                                         ELSE "matched"]]]

\* ------------------------------------------------------------------- load

\* rec.get('source_records') of the caller's record, whose value is tagged
has_source_records(r) ==
    /\ "source_records" \in DOMAIN r
    /\ IF isstr(r.source_records) THEN r.source_records.str # ""
       ELSE r.source_records.list # <<>>

valid(r) == Truthy(r, "title") /\ has_source_records(r)

\* rec['source_records'] made a list
with_source_list(r) ==
    Set(r, "source_records",
        IF isstr(r.source_records) THEN <<r.source_records.str>>
        ELSE r.source_records.list)

with_full_title(r) ==
    Set(r, "full_title",
        r.title \o (IF Truthy(r, "subtitle") THEN <<" ">> \o r.subtitle ELSE <<>>))

Stage(name, match) == [stage |-> name, match |-> match]

\* `if not match:` after find_exact_match: the fuzzy tier
after_exact(S, edition_pool, accepts, exact) ==
    IF exact # False
    THEN [match |-> exact, fuzzed |-> FALSE,
          stages |-> <<Stage("FAST_PATH", False), Stage("EXACT_FIELD", exact)>>]
    ELSE [match |-> find_match(S, edition_pool, accepts), fuzzed |-> TRUE,
          stages |-> <<Stage("FAST_PATH", False), Stage("EXACT_FIELD", False),
                       Stage("FUZZY", find_match(S, edition_pool, accepts))>>]

\* after_fast with the exact-field tier run whatever early_exit found
after_fast_unguarded(S, r, edition_pool, accepts, fast) ==
    [match  |-> IF find_exact_match(S, r, edition_pool) # False
                THEN find_exact_match(S, r, edition_pool) ELSE fast,
     fuzzed |-> FALSE,
     stages |-> <<Stage("FAST_PATH", fast),
                  Stage("EXACT_FIELD", find_exact_match(S, r, edition_pool))>>]

\* `if not match:` after early_exit: the exact-field tier
after_fast(S, r, edition_pool, accepts, fast) ==
    IF fast # False
    THEN [match |-> fast, fuzzed |-> FALSE, stages |-> <<Stage("FAST_PATH", fast)>>]
    ELSE after_exact(S, edition_pool, accepts,
                     find_exact_match(S, r, edition_pool))

\* the match tiers of load in the order they run: the match they end with,
\* whether the fuzzy tier ran, and what each tier that ran reported
match_tiers(S, r, edition_pool, accepts) ==
    after_fast(S, r, edition_pool, accepts, early_exit(S, r))

\* the result of load: what create or reconcile did, the stages, and the
\* store calls: those of the pool and the tiers, then those of the terminal
done(out, stages, terminal, reads) ==
    [site |-> out.site, batches |-> out.batches, reply |-> out.reply,
     trace |-> <<Stage("START", False)>> \o stages \o <<terminal>>,
     ops |-> reads \o out.ops]

\* load once the tiers have run; rec['full_title'] was set before the fuzzy tier
after_tiers(S, r, t, cover_reply, push_reply, reads) ==
    IF t.match = Loops
    THEN [site |-> S, batches |-> <<>>, reply |-> [hangs |-> TRUE],
          trace |-> <<Stage("START", False)>> \o t.stages, ops |-> reads]
    ELSE IF t.match = False
    THEN done(load_data(S, with_full_title(r), cover_reply, push_reply), t.stages,
              Stage("CREATE", False), reads)
    ELSE done(reconcile(S, IF t.fuzzed THEN with_full_title(r) ELSE r,
                        t.match, cover_reply),
              t.stages, Stage("RECONCILE", t.match), reads)

\* load once the tiers have run, with the store calls made so far
after_match(S, r, edition_pool, accepts, t, cover_reply, push_reply) ==
    after_tiers(S, r, t, cover_reply, push_reply,
                pool_ops(r) \o tier_ops(S, r, edition_pool, accepts, t.stages))

\* load once the pool is built
after_pool(S, r, edition_pool, accepts, cover_reply, push_reply) ==
    IF DOMAIN edition_pool = {}
    THEN done(load_data(S, r, cover_reply, push_reply), <<>>,
              Stage("CREATE", False), pool_ops(r))
    ELSE after_match(S, r, edition_pool, accepts,
                     match_tiers(S, r, edition_pool, accepts),
                     cover_reply, push_reply)

\* load once the required fields are there
load_valid(S, r, accepts, cover_reply, push_reply) ==
    after_pool(S, r, build_pool(S, r), accepts, cover_reply, push_reply)

\* the reads of load that end with the tiers: the pool, and what the tiers
\* leave (no stage when the pool is empty)
decide(S, r, accepts) ==
    IF DOMAIN build_pool(S, r) = {}
    THEN [match |-> False, fuzzed |-> FALSE, stages |-> <<>>]
    ELSE match_tiers(S, r, build_pool(S, r), accepts)

\* commit that reads the pool and runs the tiers again on the store as it is
\* then (the scorer accepting nothing)
commit_rematch(S, r, t, push_reply) ==
    IF decide(S, r, {}).stages = <<>>
    THEN done(load_data(S, r, None, push_reply), <<>>, Stage("CREATE", False), <<>>)
    ELSE after_tiers(S, r, decide(S, r, {}), None, push_reply, <<>>)

\* the rest of load, on the store as it is then: load_data or the matched edition
commit(S, r, t, push_reply) ==
    IF t.stages = <<>>
    THEN done(load_data(S, r, None, push_reply), <<>>, Stage("CREATE", False), <<>>)
    ELSE after_tiers(S, r, t, None, push_reply, <<>>)

\* load with source_records looked at only once the pool is built
load_late_check(S, r0, accepts, cover_reply, push_reply) ==
    IF ~Truthy(r0, "title")
    THEN [site |-> S, batches |-> <<>>, trace |-> <<Stage("START", False)>>,
          ops |-> <<>>, reply |-> [raised |-> "missing required field: 'title'"]]
    ELSE IF ~has_source_records(r0)
    THEN [site |-> S, batches |-> <<>>, trace |-> <<Stage("START", False)>>,
          ops |-> <<"things", "things">>,
          reply |-> [raised |-> "missing required field: 'source_records'"]]
    ELSE load_valid(S, with_source_list(r0), accepts, cover_reply, push_reply)

\* load(rec): [site, reply, batches, trace, ops]
load(S, r0, accepts, cover_reply, push_reply) ==
    IF ~Truthy(r0, "title")
    THEN [site |-> S, batches |-> <<>>, trace |-> <<Stage("START", False)>>,
          ops |-> <<>>, reply |-> [raised |-> "missing required field: 'title'"]]
    ELSE IF ~has_source_records(r0)
    THEN [site |-> S, batches |-> <<>>, trace |-> <<Stage("START", False)>>,
          ops |-> <<>>,
          reply |-> [raised |-> "missing required field: 'source_records'"]]
    ELSE load_valid(S, with_source_list(r0), accepts, cover_reply, push_reply)

\* ------------------------------------------------------- records and sites

Tom    == <<"T", "o", "m">>
TheTom == <<"T", "h", "e", " ", "T", "o", "m">>
Emma   == <<"E", "m", "m", "a">>
Ann    == <<"A", "n", "n">>

Core(t, src) == [title |-> t, source_records |-> src]

SrcX1   == [list |-> <<"ia:x1">>]
SrcStr3 == [str |-> "ia:x3"]
SrcM2X3 == [list |-> <<"marc:m2", "ia:x3">>]
SrcDup  == [list |-> <<"ia:x3", "ia:x3">>]

\* the optional fields that are added to a core record
Extras ==
    { <<>>,
      [ocaid |-> ""], [ocaid |-> "x1"], [ocaid |-> "x3"],
      [isbn_10 |-> << <<"1", "-", "2">> >>],
      [isbn_13 |-> << <<" ", "9">> >>],
      [oclc_numbers |-> <<"o1">>], [oclc_numbers |-> <<"o2">>],
      [lccn |-> <<"l1">>],
      [openlibrary |-> "OL2M"], [openlibrary |-> "OL9M"],
      [subjects |-> <<"Fiction", "Boys">>],
      [subject_places |-> <<"Missouri">>],
      [cover |-> "http://c"],
      [ia_box_id |-> [str |-> "IA2"]],
      [ia_box_id |-> [list |-> <<"IA1">>]],
      [ia_loaded_id |-> [list |-> <<"L1", "L2">>]],
      [ocaid |-> "x1", isbn_10 |-> << <<"1", "-", "2">> >>],
      [openlibrary |-> "OL2M", ocaid |-> "x1"],
      [oclc_numbers |-> <<"o2">>, lccn |-> <<"l1">>] }

Records ==
    {Core(Tom, src) @@ x : src \in {SrcX1, SrcStr3}, x \in Extras}
    \cup { Core(Tom, SrcM2X3), Core(Tom, SrcM2X3) @@ [oclc_numbers |-> <<"o1">>],
           Core(Tom, SrcDup), Core(TheTom, SrcStr3), Core(Emma, SrcStr3),
           Core(Ann, SrcX1), Core(Ann, SrcX1) @@ [ocaid |-> "x3"] }
    \cup { [source_records |-> SrcX1], Core(<<>>, SrcX1), [title |-> Tom],
           Core(Tom, [list |-> <<>>]), Core(Tom, [str |-> ""]) }

\* a site with an edition and its work, and an edition that has no work
SeedSite ==
    << [type |-> WorkType, key |-> "/works/OL1W", title |-> Tom,
        subjects |-> <<"Fiction">>],
       [type |-> EditionType, key |-> "/books/OL1M", title |-> Tom,
        source_records |-> <<"ia:x1">>, works |-> <<"/works/OL1W">>,
        ocaid |-> "x1", oclc_numbers |-> <<"o1">>, lccn |-> <<"l1">>,
        ia_box_id |-> <<"IA1">>],
       [type |-> EditionType, key |-> "/books/OL2M", title |-> Emma,
        source_records |-> <<"marc:m2">>, isbn_10 |-> << <<"1", "2">> >>,
        oclc_numbers |-> <<"o2">>] >>

InitSites == {<<>>, SeedSite}

\* --------------------------------------------------------- the state machine

Init ==
    /\ site \in InitSites
    /\ rec = None
    /\ reply = None
    /\ trace = <<>>
    /\ batches = <<>>
    /\ nloads = 0
    /\ ops = <<>>
    /\ calls = <<>>
    /\ matching = None

EditionKeys(S) == {S[i].key : i \in {j \in 1..Len(S) : S[j].type = EditionType}}

\* the verdicts of the merge scorer that find_match can tell apart: it
\* accepts no edition, or a first one
AcceptChoices(S, r0) ==
    IF valid(r0)
       /\ LET r == with_source_list(r0)
          IN  /\ early_exit(S, r) = False
              /\ find_exact_match(S, r, build_pool(S, r)) = False
    THEN {{}} \cup {{k} : k \in EditionKeys(S)}
    ELSE {{}}

CoverChoices(r) == IF "cover" \in DOMAIN r THEN CoverReplies ELSE {None}

\* the archive item is written only for an edition with an ocaid
PushChoices(r) == IF Truthy(r, "ocaid") THEN PushReplies ELSE {"ok"}

Load(r, accepts, cover_reply, push_reply) ==
    /\ nloads < MaxLoads
    /\ LET out == load(site, r, accepts, cover_reply, push_reply)
       IN  /\ site' = out.site
           /\ reply' = out.reply
           /\ trace' = out.trace
           /\ batches' = out.batches
           /\ ops' = out.ops
    /\ rec' = r
    /\ nloads' = nloads + 1
    /\ UNCHANGED <<calls, matching>>

Next ==
    \E r \in Records :
        \E accepts \in AcceptChoices(site, r) :
            \E cover_reply \in CoverChoices(r) :
                \E push_reply \in PushChoices(r) :
                    Load(r, accepts, cover_reply, push_reply)

Spec == Init /\ [][Next]_vars

\* ------------------------------------------- two load calls, interleaved
\* Each call reads (the pool and the tiers), and later does the rest of load.
\* Nothing in load keeps another call from running in between.

CallIds == {1, 2}

CallRecords ==
    { Core(Tom, SrcX1), Core(Tom, SrcStr3), Core(Emma, SrcStr3), Core(Ann, SrcX1),
      Core(Ann, SrcX1) @@ [ocaid |-> "x3"], Core(Tom, SrcX1) @@ [ocaid |-> "x1"] }

InitInterleaved ==
    /\ site \in InitSites
    /\ calls \in [CallIds -> {[pc |-> "start", rec |-> r] : r \in CallRecords}]
    /\ rec = None
    /\ reply = None
    /\ trace = <<>>
    /\ batches = <<>>
    /\ nloads = 0
    /\ ops = <<>>
    /\ matching = None

\* call c builds its pool and runs its tiers
Decide(c, accepts) ==
    /\ calls[c].pc = "start"
    /\ calls' = [calls EXCEPT ![c] =
          [pc |-> "decided", rec |-> calls[c].rec, before |-> site,
           t |-> decide(site, with_source_list(calls[c].rec), accepts)]]
    /\ UNCHANGED <<site, rec, reply, trace, batches, nloads, ops, matching>>

\* call c creates, or reconciles the edition it matched, and returns
Commit(c, push_reply) ==
    /\ calls[c].pc = "decided"
    /\ LET out == commit(site, with_source_list(calls[c].rec), calls[c].t, push_reply)
       IN  /\ site' = out.site
           /\ calls' = [calls EXCEPT ![c] =
                 [pc |-> "done", rec |-> calls[c].rec, before |-> calls[c].before,
                  t |-> calls[c].t, reply |-> out.reply]]
    /\ UNCHANGED <<rec, reply, trace, batches, nloads, ops, matching>>

NextInterleaved ==
    \/ \E c \in CallIds : \E accepts \in AcceptChoices(site, calls[c].rec) :
          Decide(c, accepts)
    \/ \E c \in CallIds : \E push_reply \in PushChoices(calls[c].rec) :
          Commit(c, push_reply)

SpecInterleaved == InitInterleaved /\ [][NextInterleaved]_vars

\* ------------------------------------------------- find_match on its own
\* The pool of find_match was read before it runs: an edition of the pool may
\* be a redirect by the time find_match gets it.

RedirectA == "/books/OL3M"
RedirectB == "/books/OL4M"

Redirect(key, location) ==
    [type |-> RedirectType, key |-> key, location |-> location]

\* the live editions of the seed, and with them: a chain of redirects to one
\* of them, the same in another order, a redirect to a missing edition, a
\* cycle of redirects, and a redirect and another chain
RedirectSites ==
    { SeedSite \o <<Redirect(RedirectA, RedirectB), Redirect(RedirectB, "/books/OL1M")>>,
      <<Redirect(RedirectA, "/books/OL1M")>> \o SeedSite,
      SeedSite \o <<Redirect(RedirectA, "/books/OL9M")>>,
      SeedSite \o <<Redirect(RedirectA, RedirectB), Redirect(RedirectB, RedirectA)>>,
      SeedSite \o <<Redirect(RedirectA, "/books/OL2M"), Redirect(RedirectB, "/books/OL9M")>> }

PoolKeys == {"/books/OL1M", "/books/OL2M", RedirectA, RedirectB}

\* a pool of one or two criteria over the keys of the site
Pools(S) ==
    LET keys == {k \in PoolKeys : get(S, k) # None}
    IN  {[c \in {"title"} |-> ks] : ks \in SUBSET keys \ {{}}}
        \cup {[c \in {"title", "ocaid"} |-> IF c = "title" THEN ks ELSE os] :
                 ks \in SUBSET keys \ {{}}, os \in SUBSET keys \ {{}}}

InitMatch ==
    /\ site \in RedirectSites
    /\ matching = None
    /\ rec = None
    /\ reply = None
    /\ trace = <<>>
    /\ batches = <<>>
    /\ nloads = 0
    /\ ops = <<>>
    /\ calls = <<>>

FindMatch(edition_pool, accepts) ==
    /\ matching = None
    /\ matching' = [edition_pool |-> edition_pool, accepts |-> accepts,
                    match |-> find_match(site, edition_pool, accepts),
                    did   |-> match_calls(site, Candidates(site, edition_pool),
                                          {}, accepts)]
    /\ UNCHANGED <<site, rec, reply, trace, batches, nloads, ops, calls>>

NextMatch ==
    \E edition_pool \in Pools(site) :
        \E accepts \in SUBSET EditionKeys(site) :
            FindMatch(edition_pool, accepts)

SpecMatch == InitMatch /\ [][NextMatch]_vars

\* ------------------------------------------------------------- the claims

\* the step is a load call
LoadStep == nloads' = nloads + 1

StageNames(tr) == [i \in 1..Len(tr) |-> tr[i].stage]

Terminal(tr) == tr[Len(tr)].stage

\* the last load call ended in RECONCILE and returned
Reconciled(tr, rep) ==
    tr # <<>> /\ Terminal(tr) = "RECONCILE" /\ "success" \in DOMAIN rep

\* the site without the thing of key k
Without(S, k) == SelectSeq(S, LAMBDA t : t.key # k)

\* C1: reconciliation is idempotent: when load(R) has ended in RECONCILE, a
\* second load(R) right after it changes no stored thing and calls save_many
\* not at all.  (Stated for the records without a cover: what the upload of a
\* cover answers is not the record's.)
C1_Idempotent ==
    [][(/\ Reconciled(trace, reply)
        /\ LoadStep
        /\ rec' = rec
        /\ "cover" \notin DOMAIN rec)
       => (site' = site /\ batches' = <<>>)]_vars

\* a record with a title and one source record in a list, and nothing else
PlainRecord(r) ==
    /\ DOMAIN r = {"title", "source_records"}
    /\ valid(r)
    /\ ~isstr(r.source_records)
    /\ Len(r.source_records.list) = 1

\* the first load of the scenario: nothing in the store shares a pool
\* criterion with the plain record, and the load creates E1 and W1
C2_First ==
    (/\ LoadStep
     /\ PlainRecord(rec')
     /\ DOMAIN build_pool(site, with_source_list(rec')) = {})
    => /\ DOMAIN reply' = {"success", "edition", "work"}
       /\ reply'.success
       /\ reply'.edition.status = "created"
       /\ reply'.work.status = "created"
       /\ Len(site') = Len(site) + 2
       /\ get(site, reply'.edition.key) = None
       /\ get(site, reply'.work.key) = None
       /\ get(site', reply'.edition.key).type = EditionType
       /\ get(site', reply'.work.key).type = WorkType
       /\ get(site', reply'.edition.key).works = <<reply'.work.key>>

\* the second load of the scenario follows the first with the same title and
\* source record, and an ocaid
C2_SecondCase ==
    /\ LoadStep
    /\ StageNames(trace) = <<"START", "CREATE">>
    /\ PlainRecord(rec)
    /\ DOMAIN rec' = DOMAIN rec \cup {"ocaid"}
    /\ rec'.title = rec.title
    /\ rec'.source_records = rec.source_records
    /\ DOMAIN build_pool(Without(site, reply.edition.key),
                         with_source_list(rec')) = {}

C2_SecondResult ==
    /\ reply' = [success |-> TRUE,
                 edition |-> [key |-> reply.edition.key, status |-> "modified"],
                 work |-> [key |-> reply.work.key, status |-> "matched"]]
    /\ Len(site') = Len(site)
    /\ get(site', reply.edition.key).ocaid = rec'.ocaid

\* C2 as stated: from a store in which no edition shares a pool criterion with
\* the record, load of {title, source_records [s]} creates E1 and W1, and the
\* following load of the same record with an ocaid returns E1 'modified' and
\* W1 'matched' and creates no edition.
C2_Scenario ==
    [][C2_First /\ (C2_SecondCase => C2_SecondResult)]_vars

\* C2 amended: the same, from a store in which moreover no edition holds the
\* source record s.
C2_ScenarioFreshSource ==
    [][C2_First
       /\ ((/\ C2_SecondCase
            /\ things(Without(site, reply.edition.key), "source_records",
                      {rec.source_records.list[1]}) = <<>>)
           => C2_SecondResult)]_vars

\* the second load of the scenario has happened on a store that was empty
C2_Witness ==
    /\ nloads = 2
    /\ Len(site) = 2
    /\ DOMAIN rec = {"title", "source_records", "ocaid"}
    /\ rec.ocaid = "x3"
    /\ StageNames(trace) = <<"START", "FAST_PATH", "RECONCILE">>
    /\ reply.edition.status = "modified"
    /\ reply.work.status = "matched"
    /\ DOMAIN get(site, reply.edition.key)
         = {"type", "key", "title", "source_records", "works", "ocaid"}
    /\ get(site, reply.edition.key).ocaid = "x3"

\* the stage sequences of the state machine of load
AllowedPaths ==
    { <<"START", "CREATE">>,
      <<"START", "FAST_PATH", "RECONCILE">>,
      <<"START", "FAST_PATH", "EXACT_FIELD", "RECONCILE">>,
      <<"START", "FAST_PATH", "EXACT_FIELD", "FUZZY", "RECONCILE">>,
      <<"START", "FAST_PATH", "EXACT_FIELD", "FUZZY", "CREATE">> }

\* C3: a load of a valid record goes START -> CREATE when the pool is empty,
\* and otherwise runs FAST_PATH, EXACT_FIELD, FUZZY in this order, a tier only
\* when every earlier one reported no match; the first match leads to
\* RECONCILE (of the matched edition), none to CREATE.
C3_StateMachine ==
    [][(LoadStep /\ valid(rec'))
       => LET r     == with_source_list(rec')
              pool  == build_pool(site, r)
              names == StageNames(trace')
              n     == Len(trace')
          IN  /\ names \in AllowedPaths
              /\ (DOMAIN pool = {}) <=> (names = <<"START", "CREATE">>)
              /\ \A i \in 2..(n - 2) : trace'[i].match = False
              /\ n > 2 =>
                   /\ (trace'[n - 1].match # False) <=> (names[n] = "RECONCILE")
                   /\ names[n] = "RECONCILE" => trace'[n].match = trace'[n - 1].match
                   /\ trace'[2].match = early_exit(site, r)
                   /\ n > 3 => trace'[3].match = find_exact_match(site, r, pool)
         ]_vars

\* a load went through all three tiers and the fuzzy tier matched
C3_Witness ==
    /\ StageNames(trace) = <<"START", "FAST_PATH", "EXACT_FIELD", "FUZZY", "RECONCILE">>
    /\ "success" \in DOMAIN reply

ValidRecords == {r \in Records : valid(r)}

\* what each of the six probes of the fast path finds in S for record r, in
\* the order of their priority
ProbeHits(S, r) ==
    LET first(f) == IF Truthy(r, f) THEN things(S, f, {r[f][1]}) ELSE <<>>
    IN  << IF "openlibrary" \in DOMAIN r
           THEN <<"/books/" \o r.openlibrary>> ELSE <<>>,
           IF "ocaid" \in DOMAIN r THEN things(S, "ocaid", {r.ocaid}) ELSE <<>>,
           things(S, "isbn_", SeqToSet(isbns_from_record(r))),
           first("source_records"),
           first("oclc_numbers"),
           first("lccn") >>

\* the first result of the first probe that hits, False when none does
FirstHit(hits) ==
    IF \E i \in 1..Len(hits) : hits[i] # <<>>
    THEN hits[CHOOSE i \in 1..Len(hits) :
                 hits[i] # <<>> /\ \A j \in 1..(i - 1) : hits[j] = <<>>][1]
    ELSE False

\* C4: early_exit returns the result of the first of its six probes that
\* hits, in the order openlibrary hint, ocaid, ISBN list, first source
\* record, first oclc number, first lccn, and no match only when none hits.
C4_FastPathPriority ==
    \A r0 \in ValidRecords :
        early_exit(site, with_source_list(r0))
            = FirstHit(ProbeHits(site, with_source_list(r0)))

\* the last load was decided by the ISBN probe although the source record
\* probe, of lower priority, finds another edition
C4_Witness ==
    /\ nloads > 0
    /\ valid(rec)
    /\ Len(trace) > 1
    /\ trace[2].stage = "FAST_PATH"
    /\ LET hits == ProbeHits(site, with_source_list(rec))
       IN  /\ hits[1] = <<>> /\ hits[2] = <<>>
           /\ hits[3] # <<>> /\ hits[4] # <<>>
           /\ hits[3][1] # hits[4][1]
           /\ trace[2].match = hits[3][1]

OcaidRecords == {r \in ValidRecords : Truthy(r, "ocaid")}

\* C5 as stated: two records with the same non-empty ocaid get the same
\* result from the fast path on the same store, whatever their other fields.
C5_SameOcaid ==
    \A r1, r2 \in OcaidRecords :
        r1.ocaid = r2.ocaid
        => early_exit(site, with_source_list(r1))
             = early_exit(site, with_source_list(r2))

\* C5 amended: two records with the same non-empty ocaid and no openlibrary
\* hint get the same edition from the fast path on a store in which an
\* edition has that ocaid: the first edition with that ocaid.
C5_SameOcaidHeld ==
    \A r1, r2 \in OcaidRecords :
        (/\ r1.ocaid = r2.ocaid
         /\ "openlibrary" \notin DOMAIN r1
         /\ "openlibrary" \notin DOMAIN r2
         /\ things(site, "ocaid", {r1.ocaid}) # <<>>)
        => /\ early_exit(site, with_source_list(r1))
                = early_exit(site, with_source_list(r2))
           /\ early_exit(site, with_source_list(r1))
                = things(site, "ocaid", {r1.ocaid})[1]

\* the last load matched by ocaid, its ISBN would have found another edition,
\* and another record has the same ocaid and no ISBN
C5_Witness ==
    /\ nloads > 0
    /\ rec \in OcaidRecords
    /\ "openlibrary" \notin DOMAIN rec
    /\ Len(trace) > 1
    /\ trace[2].stage = "FAST_PATH"
    /\ LET hits == ProbeHits(site, with_source_list(rec))
       IN  /\ hits[2] # <<>> /\ hits[3] # <<>>
           /\ hits[2][1] # hits[3][1]
           /\ trace[2].match = hits[2][1]
    /\ \E r2 \in OcaidRecords :
          /\ r2.ocaid = rec.ocaid
          /\ "openlibrary" \notin DOMAIN r2
          /\ "isbn_10" \notin DOMAIN r2

Editions(S) == {S[i] : i \in {j \in 1..Len(S) : S[j].type = EditionType}}

\* the record's value under key k is not empty
NonEmptyValue(k, v) ==
    IF k \in StrKeys THEN v # ""
    ELSE IF k \in TaggedKeys
         THEN (IF isstr(v) THEN v.str # "" ELSE v.list # <<>>)
         ELSE v # <<>>

\* C6: the exact-field tier accepts a candidate exactly when every field other
\* than source_records that is non-empty on both the record and the candidate
\* has equal values; a field absent or empty on either side is skipped.
C6_ExactFieldRule ==
    \A r0 \in ValidRecords : \A e \in Editions(site) :
        LET r == with_source_list(r0)
        IN  fields_match(r, e)
            <=> \A k \in DOMAIN r \ {"source_records"} :
                   (Truthy(e, k) /\ NonEmptyValue(k, r[k]))
                   => ~differs(k, e[k], r[k])

\* C7: the source_records of every stored edition only grow: after a load the
\* list before it is a prefix of the list, and what a RECONCILE appended is
\* the record's source records that were absent from the stored list, in the
\* record's order.
C7_SourceRecordsGrow ==
    [][LoadStep
       => \A e \in Editions(site) :
            LET old   == Get(e, "source_records")
                e2    == get(site', e.key)
                new   == Get(e2, "source_records")
                added == IF Reconciled(trace', reply')
                            /\ reply'.edition.key = e.key
                         THEN SelectSeq(with_source_list(rec').source_records,
                                        LAMBDA x : ~In(x, old))
                         ELSE <<>>
            IN  /\ e2 # None
                /\ new = old \o added
      ]_vars

\* a RECONCILE appended the one source record of two that the edition lacked
C7_Witness ==
    /\ Reconciled(trace, reply)
    /\ rec.source_records = [list |-> <<"marc:m2", "ia:x3">>]
    /\ get(site, reply.edition.key).source_records = <<"marc:m2", "ia:x3">>
    /\ batches # <<>>

\* the values of a tagged record value, as a list
ValuesOf(v) == IF isstr(v) THEN <<v.str>> ELSE v.list

\* C8: in RECONCILE, for ia_box_id and ia_loaded_id on the record, the stored
\* list after the load is the stored list before it followed by the record's
\* values that it did not hold.
C8_IaIdsUnion ==
    [][(LoadStep /\ Reconciled(trace', reply'))
       => \A f \in {"ia_box_id", "ia_loaded_id"} :
            f \in DOMAIN rec'
            => Get(get(site', reply'.edition.key), f)
                 = AppendUnseen(Get(get(site, reply'.edition.key), f),
                                ValuesOf(rec'[f]))
      ]_vars

\* C9: in RECONCILE, for each of the four subject fields on the record, the
\* list of the edition's work after the load is its list before followed by
\* the record's items that it did not hold, and the work is written when an
\* item was appended.
C9_SubjectsUnion ==
    [][(LoadStep /\ Reconciled(trace', reply'))
       => \A i \in 1..Len(subject_fields) :
            LET f   == subject_fields[i]
                old == Get(get(site, reply'.work.key), f)
            IN  f \in DOMAIN rec'
                => /\ Get(get(site', reply'.work.key), f)
                        = AppendUnseen(old, rec'[f])
                   /\ AppendUnseen(old, rec'[f]) # old
                        => \E b \in 1..Len(batches') : \E j \in 1..Len(batches'[b]) :
                              batches'[b][j].key = reply'.work.key
      ]_vars

\* C10: a load leaves the ocaid of an edition that has one as it is, and a
\* RECONCILE of a record with an ocaid into an edition without one sets it;
\* an ocaid appears on an edition in no other way.
C10_OcaidSetOnce ==
    [][LoadStep
       => \A e \in Editions(site) :
            LET e2   == get(site', e.key)
                mine == Reconciled(trace', reply') /\ reply'.edition.key = e.key
            IN  /\ Truthy(e, "ocaid") => (Truthy(e2, "ocaid") /\ e2.ocaid = e.ocaid)
                /\ (~Truthy(e, "ocaid") /\ mine /\ "ocaid" \in DOMAIN rec')
                     => ("ocaid" \in DOMAIN e2 /\ e2.ocaid = rec'.ocaid)
                /\ (~Truthy(e, "ocaid") /\ Truthy(e2, "ocaid"))
                     => (mine /\ "ocaid" \in DOMAIN rec')
      ]_vars

\* a record with another ocaid was reconciled into an edition that kept its own
C10_Witness ==
    /\ Reconciled(trace, reply)
    /\ "ocaid" \in DOMAIN rec
    /\ rec.ocaid = "x3"
    /\ get(site, reply.edition.key).ocaid = "x1"

\* the number of entries of the sequence l that are x
Count(l, x) == Cardinality({i \in 1..Len(l) : l[i] = x})

\* no entry of the sequence l occurs twice
NoDuplicates(l) == \A i, j \in 1..Len(l) : l[i] = l[j] => i = j

\* C11: a load call is store reads followed by at most one save_many: it
\* calls save_many at most once, the store after it is the store before it
\* with that one batch written, and no get or query follows the save_many.
C11_ReadsThenOneWrite ==
    [][LoadStep
       => /\ Len(batches') <= 1
          /\ Count(ops', "save_many") = Len(batches')
          /\ site' = (IF batches' = <<>> THEN site ELSE save_many(site, batches'[1]))
          /\ \A i, j \in 1..Len(ops') :
                (ops'[i] = "save_many" /\ j > i) => ops'[j] \notin {"get", "things"}
      ]_vars

\* C12: a RECONCILE calls save_many only when a field of the matched edition
\* or of its work differs after the merge from what is stored; a record that
\* brings nothing new causes no write and is reported 'matched', 'matched'.
C12_WriteOnlyOnChange ==
    [][(LoadStep /\ Reconciled(trace', reply'))
       => /\ batches' # <<>> => site' # site
          /\ site' = site
               => /\ reply'.edition.status = "matched"
                  /\ reply'.work.status = "matched"
      ]_vars

\* C13: a load of a valid record that has decided on CREATE, or on RECONCILE
\* of a stored edition, returns success with its edition and work whatever
\* the cover upload and the push to the archive item do.
C13_SideChannelsNeverFail ==
    [][(/\ LoadStep
        /\ valid(rec')
        /\ Terminal(trace') \in {"CREATE", "RECONCILE"}
        /\ Terminal(trace') = "RECONCILE"
             => get(site, trace'[Len(trace')].match) # None)
       => /\ DOMAIN reply' = {"success", "edition", "work"}
          /\ reply'.success
      ]_vars

\* C14: a record with a missing or empty title, or with missing or empty
\* source_records, is rejected with the missing-required-field error before
\* any store call: no query, get, new_key or save_many, and the store is as
\* it was.
C14_RejectedBeforeStore ==
    [][(LoadStep /\ ~valid(rec'))
       => /\ DOMAIN reply' = {"raised"}
          /\ reply'.raised = (IF Truthy(rec', "title")
                              THEN "missing required field: 'source_records'"
                              ELSE "missing required field: 'title'")
          /\ ops' = <<>>
          /\ batches' = <<>>
          /\ site' = site
      ]_vars

\* a record with a title and an empty source_records was rejected
C14_Witness ==
    /\ nloads > 0
    /\ Truthy(rec, "title")
    /\ "source_records" \in DOMAIN rec
    /\ ~has_source_records(rec)
    /\ DOMAIN reply = {"raised"}
    /\ site # <<>>

BothDone == \A c \in CallIds : calls[c].pc = "done"

\* C16: nothing keeps two interleaved load calls apart: when both have found
\* no match in their reads and both have returned, each has created an edition
\* and a work of its own, so that two calls for the same book that both read
\* before either writes leave two editions of it.
C16_BothCreate ==
    (/\ BothDone
     /\ \A c \in CallIds : calls[c].t.match = False /\ "success" \in DOMAIN calls[c].reply)
    => /\ calls[1].reply.edition.key # calls[2].reply.edition.key
       /\ calls[1].reply.work.key # calls[2].reply.work.key
       /\ \A c \in CallIds :
             /\ calls[c].reply.edition.status = "created"
             /\ calls[c].reply.work.status = "created"
             /\ get(calls[c].before, calls[c].reply.edition.key) = None
             /\ get(site, calls[c].reply.edition.key).type = EditionType
             /\ get(site, calls[c].reply.edition.key).title = calls[c].rec.title
             /\ get(site, calls[c].reply.edition.key).works
                  = <<calls[c].reply.work.key>>

\* two calls for the same record read the same store, and the store now has
\* two editions of it
C16_Witness ==
    /\ BothDone
    /\ calls[1].rec = calls[2].rec
    /\ calls[1].before = calls[2].before
    /\ \A c \in CallIds : "success" \in DOMAIN calls[c].reply
    /\ calls[1].reply.edition.key # calls[2].reply.edition.key
    /\ Len(site) = Len(calls[1].before) + 4
    /\ get(site, calls[1].reply.edition.key).title
         = get(site, calls[2].reply.edition.key).title
    /\ get(site, calls[1].reply.edition.key).source_records
         = get(site, calls[2].reply.edition.key).source_records

\* the ISBNs, source records, oclc numbers and lccns of a record share nothing
\* with those of the other, their ocaids and hints are not the same, and
\* their titles differ, also when normalized
Disjoint(r1, r2) ==
    LET vals(r, f) == IF Truthy(r, f) THEN SeqToSet(r[f]) ELSE {}
        same(f)    == f \in DOMAIN r1 /\ f \in DOMAIN r2 /\ r1[f] = r2[f]
    IN  /\ r1.title # r2.title
        /\ normalize(r1.title) # normalize(r2.title)
        /\ ~same("ocaid")
        /\ ~same("openlibrary")
        /\ SeqToSet(isbns_from_record(r1)) \cap SeqToSet(isbns_from_record(r2)) = {}
        /\ \A f \in {"source_records", "oclc_numbers", "lccn"} :
              vals(r1, f) \cap vals(r2, f) = {}

\* the step is a load of a valid record that follows a successful load of a
\* record disjoint from it
C17_Case ==
    /\ LoadStep
    /\ nloads > 0
    /\ "success" \in DOMAIN reply
    /\ valid(rec')
    /\ Disjoint(with_source_list(rec), with_source_list(rec'))

\* the load neither returns the edition of the load before it nor changes it
C17_Apart ==
    /\ "success" \in DOMAIN reply' => reply'.edition.key # reply.edition.key
    /\ get(site', reply.edition.key) = get(site, reply.edition.key)

\* C17 as stated: of two records with disjoint identifiers and different
\* titles and normalized titles, loaded one after the other, the second never
\* matches the edition the first created or reconciled.
C17_NeverMatch ==
    [][C17_Case => C17_Apart]_vars

\* C17 amended: the same for the edition that the first load created, when
\* the second record has no openlibrary hint.
C17_NeverMatchCreated ==
    [][(/\ C17_Case
        /\ reply.edition.status = "created"
        /\ "openlibrary" \notin DOMAIN rec')
       => C17_Apart]_vars

\* the first load created an edition for 'Ann'; the second, of a disjoint
\* record titled 'Tom', had a pool and matched another edition
C17_Witness ==
    /\ nloads = 2
    /\ Len(site) = 5
    /\ get(site, "/books/OL3M").title = Ann
    /\ valid(rec)
    /\ rec.title = Tom
    /\ Disjoint(with_source_list(rec), get(site, "/books/OL3M"))
    /\ Reconciled(trace, reply)
    /\ reply.edition.key = "/books/OL1M"

\* C18: find_match returns for every pool and every structure of redirects
\* in the store, cycles of redirects included.
C18_FindMatchTerminates ==
    matching # None => matching.match # Loops

\* C19: the source_records of every stored edition stay free of duplicates,
\* also when a record lists a source record twice.  (Stated for the loads
\* that reconcile: a created edition gets the list that build_query makes of
\* the record's.)
C19_SourceRecordsDistinct ==
    [][(LoadStep /\ Reconciled(trace', reply'))
       => (NoDuplicates(Get(get(site, reply'.edition.key), "source_records"))
           => NoDuplicates(Get(get(site', reply'.edition.key), "source_records")))
      ]_vars

\* C20: the edition that the tiers hand to reconciliation is in the store; a
\* record whose openlibrary hint names no stored edition is not reconciled,
\* and its load does not fail.
C20_MatchIsStored ==
    [][(LoadStep /\ valid(rec') /\ Terminal(trace') = "RECONCILE")
       => /\ get(site, trace'[Len(trace')].match) # None
          /\ get(site, trace'[Len(trace')].match).type = EditionType
          /\ reply' # [raised |-> "AttributeError"]
      ]_vars

\* C21: the covers of every edition and work that a load writes hold only ids
\* of stored covers: when the record has a cover and the upload yields no id,
\* no written covers list holds the None that add_cover returned.
C21_CoversAreIds ==
    \A i \in 1..Len(batches) :
        \A j \in 1..Len(batches[i]) :
            "covers" \in DOMAIN batches[i][j]
                => NoCover \notin SeqToSet(batches[i][j].covers)

====
